---- MODULE Spec2Model ----
(***************************************************************************)
(* Model of the query-structure extraction, cost probing and timeline /    *)
(* bottleneck engine of sql_analyzer.py (analyze_query and its helpers),   *)
(* and of the reduced copy of it behind the Analyze button of              *)
(* sql_gui_analyzer.py (analyze_sql and its helpers).                      *)
(*                                                                         *)
(* SQL text is a sequence of lexical units: the punctuation units          *)
(* "(", ")", " ", ",", ";", "." and "=", and word units (keywords and      *)
(* identifiers).  The regular expressions and string operations of the     *)
(* source are modelled by what they do on such sequences.                  *)
(*                                                                         *)
(* Durations are clock ticks (naturals); Python's None is Null.            *)
(***************************************************************************)
EXTENDS Integers, Sequences, FiniteSets, TLC

\* Python's None where a duration is expected (durations are >= 0).
Null == 0 - 1

\* Python's None where rows or an error text are expected.
NoneVal == "None"

\* ---- bounds of the model ----
\* largest elapsed time of one measured window, in clock ticks
MaxDur == 2
\* most rows EXPLAIN QUERY PLAN returns
MaxPlanRows == 2
\* most iterations of a direct time_query call
MaxIter == 2
\* longest text handed to a direct extract_subqueries call
MaxLen == 4
\* longest table list handed to a direct estimate_table_costs call
MaxTables == 2

Dur == 0..MaxDur

Max(a, b) == IF a >= b THEN a ELSE b
Min(a, b) == IF a <= b THEN a ELSE b

\* ---- text ----
IsSpace(u) == u = " "

\* re.IGNORECASE match of a word unit against a keyword
UpperOf(u) ==
    CASE u \in {"select", "Select", "SELECT"} -> "SELECT"
      [] u \in {"from", "From", "FROM"} -> "FROM"
      [] u \in {"join", "Join", "JOIN"} -> "JOIN"
      [] OTHER -> u

\* sql[a:b+1] on 1-based positions
Slice(s, a, b) == IF a > b THEN <<>> ELSE SubSeq(s, a, b)

RECURSIVE LStrip(_)
LStrip(s) == IF s # <<>> /\ IsSpace(Head(s)) THEN LStrip(Tail(s)) ELSE s

RECURSIVE RStrip(_)
RStrip(s) ==
    IF s # <<>> /\ IsSpace(s[Len(s)]) THEN RStrip(SubSeq(s, 1, Len(s) - 1)) ELSE s

\* str.strip()
Strip(s) == RStrip(LStrip(s))

RECURSIVE RStripSemi(_)
\* str.rstrip(';')
RStripSemi(s) ==
    IF s # <<>> /\ s[Len(s)] = ";" THEN RStripSemi(SubSeq(s, 1, Len(s) - 1)) ELSE s

RECURSIVE SkipSpaces(_, _)
\* the position after the run of whitespace that starts at position p
SkipSpaces(s, p) == IF p <= Len(s) /\ IsSpace(s[p]) THEN SkipSpaces(s, p + 1) ELSE p

\* re.compile(r'\(\s*SELECT', re.IGNORECASE) matches at position p
SubqueryOpensAt(s, p) ==
    /\ p \in 1..Len(s)
    /\ s[p] = "("
    /\ LET q == SkipSpaces(s, p + 1) IN q <= Len(s) /\ UpperOf(s[q]) = "SELECT"

\* re.findall(r'\bJOIN\b', sql.upper()) and re.findall(r'\(\s*SELECT\b', sql, I)
count_joins_and_subqueries(s) ==
    <<Cardinality({p \in 1..Len(s) : UpperOf(s[p]) = "JOIN"}),
      Cardinality({p \in 1..Len(s) : SubqueryOpensAt(s, p)})>>

RECURSIVE ScanClose(_, _, _)
\* the while loop of extract_subqueries: position of the parenthesis that
\* returns depth to 0, or 0 when the text ends first
ScanClose(s, i, depth) ==
    IF i > Len(s) THEN 0
    ELSE IF s[i] = "(" THEN ScanClose(s, i + 1, depth + 1)
    ELSE IF s[i] = ")" THEN
        IF depth - 1 = 0 THEN i ELSE ScanClose(s, i + 1, depth - 1)
    ELSE ScanClose(s, i + 1, depth)

RECURSIVE SubsFrom(_, _)
\* for m in pattern.finditer(sql): ... subs.append(sql[start:i+1])
SubsFrom(s, p) ==
    IF p > Len(s) THEN <<>>
    ELSE IF SubqueryOpensAt(s, p) THEN
        LET e == ScanClose(s, p, 0) IN
        (IF e = 0 THEN <<>> ELSE <<Slice(s, p, e)>>) \o SubsFrom(s, p + 1)
    ELSE SubsFrom(s, p + 1)

RECURSIVE SubsFromOutermost(_, _)
SubsFromOutermost(s, p) ==
    IF p > Len(s) THEN <<>>
    ELSE IF SubqueryOpensAt(s, p) THEN
        LET e == ScanClose(s, p, 0) IN
        IF e = 0 THEN SubsFromOutermost(s, p + 1)
        ELSE <<Slice(s, p, e)>> \o SubsFromOutermost(s, e + 1)
    ELSE SubsFromOutermost(s, p + 1)

\* mutant of extract_subqueries: the scan resumes after the fragment it
\* emitted, so openers inside a fragment emit nothing
extract_subqueries_OutermostOnly(s) == SubsFromOutermost(s, 1)

extract_subqueries(s) == SubsFrom(s, 1)

RECURSIVE Concat(_)
\* the text of a sequence of units, as one string
Concat(s) == IF s = <<>> THEN "" ELSE Head(s) \o Concat(Tail(s))

\* a unit that [^\s,;] matches
IsTokenUnit(u) == u \notin {" ", ",", ";"}

RECURSIVE TokenEnd(_, _)
\* last position of the run [^\s,;]+ that starts at position p
TokenEnd(s, p) ==
    IF p + 1 <= Len(s) /\ IsTokenUnit(s[p + 1]) THEN TokenEnd(s, p + 1) ELSE p

RECURSIVE LStripParens(_)
LStripParens(s) ==
    IF s # <<>> /\ Head(s) \in {"(", ")"} THEN LStripParens(Tail(s)) ELSE s

RECURSIVE RStripParens(_)
RStripParens(s) ==
    IF s # <<>> /\ s[Len(s)] \in {"(", ")"}
    THEN RStripParens(SubSeq(s, 1, Len(s) - 1)) ELSE s

\* token.strip(); re.sub(r',$', ''); re.split(...)[0]; t.strip('()').  The
\* matched token holds no whitespace and no comma, so only strip('()') acts.
clean_table_token(token) == Concat(RStripParens(LStripParens(token)))

\* the punctuation units; every other unit is a word
Punct == {"(", ")", " ", ",", ";", ".", "="}
IsWord(u) == u \notin Punct

\* r'\b<kw>\s+([^\s,;]+)' matches with the keyword at position p
KeywordAt(s, p, kw) ==
    /\ UpperOf(s[p]) = kw
    /\ (p = 1 \/ ~IsWord(s[p - 1]))
    /\ LET q == SkipSpaces(s, p + 1) IN
          q > p + 1 /\ q <= Len(s) /\ IsTokenUnit(s[q])

RECURSIVE KeywordTokenStarts(_, _, _)
\* re.finditer(r'\b<kw>\s+([^\s,;]+)', sql, re.IGNORECASE) from position p
\* on: the start positions of group 1 of the non-overlapping matches
KeywordTokenStarts(s, p, kw) ==
    IF p > Len(s) THEN {}
    ELSE IF KeywordAt(s, p, kw) THEN
        LET q == SkipSpaces(s, p + 1) IN
        {q} \cup KeywordTokenStarts(s, TokenEnd(s, q) + 1, kw)
    ELSE KeywordTokenStarts(s, p + 1, kw)

\* a variant that keeps only the raw tokens after FROM
TableNameSet_FromOnly(s) ==
    {Concat(Slice(s, q, TokenEnd(s, q))) : q \in KeywordTokenStarts(s, 1, "FROM")}

\* the set built by extract_table_names, before list(tables)
TableNameSet(s) ==
    {clean_table_token(Slice(s, q, TokenEnd(s, q))) :
        q \in KeywordTokenStarts(s, 1, "FROM") \cup KeywordTokenStarts(s, 1, "JOIN")}

\* the orders list(tables) can produce: every arrangement of the set
Orderings(S) ==
    {f \in [1..Cardinality(S) -> S] : \A a, b \in 1..Cardinality(S) : a # b => f[a] # f[b]}

extract_table_names(s) == Orderings(TableNameSet(s))

\* ---- the database behind the connection ----
\* create_sample_db: the tables of the sample schema and their columns
SampleTables == {"customers", "orders", "products"}

Columns(t) ==
    CASE t = "customers" -> {"customer_id", "name", "city"}
      [] t = "products" -> {"product_id", "name", "price"}
      [] t = "orders" -> {"order_id", "customer_id", "order_date", "total"}
      [] OTHER -> {}

\* one execution of a statement: it returns rows or raises an error
Rows == {"rows_a", "rows_b"}
Errors == {"OperationalError"}
ExecOk(rows) == [ok |-> TRUE, val |-> rows]
ExecErr(e) == [ok |-> FALSE, val |-> e]
ExecOutcomes == {ExecOk(r) : r \in Rows} \cup {ExecErr(e) : e \in Errors}

\* one entry of the log of statements issued to the connection
Issued(stmt, phase, ok) == [stmt |-> stmt, phase |-> phase, ok |-> ok]

\* ---- Analyzer: EXPLAIN + timing ----
RECURSIVE TimedLoop(_, _, _, _)
\* for _ in range(iterations): cur.execute(sql); results = cur.fetchall()
\* outs[k] is what the k-th execution does.  exc: the exception that ended
\* the loop; n: executions issued.
TimedLoop(iterations, outs, k, results) ==
    IF k > iterations THEN [exc |-> FALSE, val |-> results, n |-> k - 1]
    ELSE IF ~outs[k].ok THEN [exc |-> TRUE, val |-> outs[k].val, n |-> k]
    ELSE TimedLoop(iterations, outs, k + 1, outs[k].val)

\* mutant of time_query: the warmup execution is not guarded, its error ends
\* the call as an error of the timed window does
time_query_WarmupErrorCounts(sql, warmup, iterations, wOut, outs, elapsed) ==
    LET w == TimedLoop(iterations, outs, 1, NoneVal) IN
    IF warmup /\ ~wOut.ok
    THEN [dur |-> Null, second |-> wOut.val,
          log |-> <<Issued(sql, "warmup", FALSE)>>, exc |-> NoneVal]
    ELSE [dur |-> IF w.exc THEN Null ELSE elapsed \div Max(1, iterations),
          second |-> w.val,
          log |-> (IF warmup THEN <<Issued(sql, "warmup", wOut.ok)>> ELSE <<>>)
                  \o [x \in 1..w.n |-> Issued(sql, "timed", outs[x].ok)],
          exc |-> NoneVal]

\* time_query(conn, sql, warmup, iterations).  wOut: what the warmup
\* execution does; outs: what the timed executions do; elapsed: the
\* perf_counter difference over the timed window.
\* Returns (dur, second), the statements it issued, and the exception that
\* escapes it (NoneVal: none).
\* mutant of time_query: the warmup execution is left out
time_query_NoWarmup(sql, warmup, iterations, wOut, outs, elapsed) ==
    LET w == TimedLoop(iterations, outs, 1, NoneVal) IN
    [dur |-> IF w.exc THEN Null ELSE elapsed \div Max(1, iterations),
     second |-> w.val,
     log |-> [x \in 1..w.n |-> Issued(sql, "timed", outs[x].ok)],
     exc |-> NoneVal]

time_query(sql, warmup, iterations, wOut, outs, elapsed) ==
    LET w == TimedLoop(iterations, outs, 1, NoneVal) IN
    [dur |-> IF w.exc THEN Null ELSE elapsed \div Max(1, iterations),
     second |-> w.val,
     log |-> (IF warmup THEN <<Issued(sql, "warmup", wOut.ok)>> ELSE <<>>)
             \o [x \in 1..w.n |-> Issued(sql, "timed", outs[x].ok)],
     exc |-> NoneVal]

\* mutant of explain_query_plan: the database's rejection is not caught
explain_query_plan_Uncaught(sql, ok, rows) ==
    [rows |-> IF ok THEN rows ELSE <<>>,
     log |-> <<Issued("EXPLAIN QUERY PLAN " \o sql, "explain", ok)>>,
     exc |-> IF ok THEN NoneVal ELSE "DatabaseError"]

\* explain_query_plan(conn, sql).  ok: the database accepts the request;
\* rows: the plan rows it returns then.
explain_query_plan(sql, ok, rows) ==
    [rows |-> IF ok THEN rows ELSE <<>>,
     log |-> <<Issued("EXPLAIN QUERY PLAN " \o sql, "explain", ok)>>,
     exc |-> NoneVal]

\* what an execution of a probe does on this database: a probe the database
\* can run returns rows, any other raises
ProbeOutcome(valid) == IF valid THEN ExecOk("rows_a") ELSE ExecErr("OperationalError")

\* a Python dict: the sequence of its <<key, value>> items, in insertion order
DictKeys(d) == {d[n][1] : n \in 1..Len(d)}
DictGet(d, key) == LET n == CHOOSE n \in 1..Len(d) : d[n][1] = key IN d[n][2]
\* d[key] = value
DictSet(d, key, value) ==
    IF key \in DictKeys(d)
    THEN [n \in 1..Len(d) |-> IF d[n][1] = key THEN <<key, value>> ELSE d[n]]
    ELSE Append(d, <<key, value>>)

RECURSIVE TableCostsLoop_StopsAtFailure(_, _, _, _, _, _)
\* mutant of TableCostsLoop: the try block encloses the loop, so the first
\* failing probe ends the estimation
TableCostsLoop_StopsAtFailure(tables, exists, el, k, costs, log) ==
    IF k > Len(tables) THEN [costs |-> costs, log |-> log, exc |-> NoneVal]
    ELSE
        LET t == tables[k]
            sql == "SELECT COUNT(*) FROM " \o t
            o == ProbeOutcome(t \in exists)
            r == time_query(sql, TRUE, 1, o, <<o>>, el[k])
        IN IF r.dur = Null
           THEN [costs |-> DictSet(costs, t, Null), log |-> log \o r.log, exc |-> NoneVal]
           ELSE TableCostsLoop_StopsAtFailure(tables, exists, el, k + 1,
                                              DictSet(costs, t, r.dur), log \o r.log)

RECURSIVE TableCostsLoop(_, _, _, _, _, _)
\* for t in tables: the try block of estimate_table_costs
TableCostsLoop(tables, exists, el, k, costs, log) ==
    IF k > Len(tables) THEN [costs |-> costs, log |-> log, exc |-> NoneVal]
    ELSE
        LET t == tables[k]
            sql == "SELECT COUNT(*) FROM " \o t
            o == ProbeOutcome(t \in exists)
            r == time_query(sql, TRUE, 1, o, <<o>>, el[k])
            dur == IF r.exc # NoneVal THEN Null
                   ELSE IF r.dur = Null THEN Null ELSE r.dur
        IN TableCostsLoop(tables, exists, el, k + 1,
                          DictSet(costs, t, dur), log \o r.log)

\* estimate_table_costs(conn, tables) on a database holding the tables
\* `exists`; el[k] is the elapsed time of the k-th probe's timed window
estimate_table_costs(tables, exists, el) ==
    TableCostsLoop(tables, exists, el, 1, <<>>, <<>>)

\* [r[1] for r in cur.execute(f"PRAGMA table_info({t})").fetchall()]
TableInfo(t, exists) == IF t \in exists THEN Columns(t) ELSE {}

\* a join condition that is given: Python's truth value of join_condition
Truthy(join_condition) == join_condition # NoneVal /\ join_condition # ""

\* the column names both tables have, as estimate_join_cost computes them;
\* pragmaOk[n]: the n-th PRAGMA statement does not raise
CommonColumns(left, right, exists, pragmaOk) ==
    IF pragmaOk[1] /\ pragmaOk[2]
    THEN TableInfo(left, exists) \cap TableInfo(right, exists)
    ELSE {}

\* mutant of JoinProbe: the cross probe whatever the columns (join_cost of
\* the GUI does this)
JoinProbe_AlwaysCross(left, right, join_condition, common, c) ==
    "SELECT COUNT(*) FROM " \o left \o ", " \o right \o " LIMIT 1000"

\* the statement estimate_join_cost times; c: the member of common that
\* next(iter(common)) yields
JoinProbe(left, right, join_condition, common, c) ==
    LET cond == IF Truthy(join_condition) THEN join_condition
                ELSE IF common # {} THEN left \o "." \o c \o " = " \o right \o "." \o c
                ELSE NoneVal
    IN IF cond # NoneVal
       THEN "SELECT COUNT(*) FROM " \o left \o " JOIN " \o right \o " ON " \o cond
       ELSE "SELECT COUNT(*) FROM " \o left \o ", " \o right \o " LIMIT 1000"

\* estimate_join_cost(conn, left_table, right_table, join_condition).
\* condOk: the database accepts the explicit condition; elapsed: the elapsed
\* time of the timed window.
estimate_join_cost(left, right, join_condition, exists, pragmaOk, c, condOk, elapsed) ==
    LET common == CommonColumns(left, right, exists, pragmaOk)
        sql == JoinProbe(left, right, join_condition, common, c)
        valid == /\ left \in exists /\ right \in exists /\ left # right
                 /\ (Truthy(join_condition) => condOk)
        o == ProbeOutcome(valid)
        r == time_query(sql, TRUE, 1, o, <<o>>, elapsed)
    IN [dur |-> r.dur,
        sql |-> sql,
        log |-> <<Issued("PRAGMA table_info(" \o left \o ")", "pragma", pragmaOk[1])>>
                \o (IF pragmaOk[1]
                    THEN <<Issued("PRAGMA table_info(" \o right \o ")", "pragma",
                                  pragmaOk[2])>>
                    ELSE <<>>)
                \o r.log,
        exc |-> r.exc]

\* ---- timeline ----
\* Step = namedtuple("Step", ["name", "type", "duration_s", "detail"])
Step(name, type, duration_s, detail) ==
    [name |-> name, type |-> type, duration_s |-> duration_s, detail |-> detail]

\* d or 0.0
OrZero(d) == IF d = Null \/ d = 0 THEN 0 ELSE d

\* key=lambda s: s['duration_s'] if s['duration_s'] is not None else 0.0
SortKey(s) == IF s.duration_s # Null THEN s.duration_s ELSE 0

RECURSIVE InsertDesc(_, _)
\* x placed after every element whose key is >= its own
InsertDesc(sorted, x) ==
    IF sorted = <<>> THEN <<x>>
    ELSE IF SortKey(Head(sorted)) >= SortKey(x)
         THEN <<Head(sorted)>> \o InsertDesc(Tail(sorted), x)
         ELSE <<x>> \o sorted

RECURSIVE InsertBeforeEqual(_, _)
InsertBeforeEqual(sorted, x) ==
    IF sorted = <<>> THEN <<x>>
    ELSE IF SortKey(Head(sorted)) > SortKey(x)
         THEN <<Head(sorted)>> \o InsertBeforeEqual(Tail(sorted), x)
         ELSE <<x>> \o sorted

RECURSIVE SortTiesReversedFrom(_, _, _)
SortTiesReversedFrom(timeline, k, acc) ==
    IF k > Len(timeline) THEN acc
    ELSE SortTiesReversedFrom(timeline, k + 1, InsertBeforeEqual(acc, timeline[k]))

\* mutant of SortedDesc: an ascending sort that is then reversed, which
\* reverses the order of steps with equal keys
SortedDesc_TiesReversed(timeline) == SortTiesReversedFrom(timeline, 1, <<>>)

RECURSIVE SortFrom(_, _, _)
SortFrom(timeline, k, acc) ==
    IF k > Len(timeline) THEN acc
    ELSE SortFrom(timeline, k + 1, InsertDesc(acc, timeline[k]))

\* sorted(timeline, key=..., reverse=True): stable, largest key first
SortedDesc(timeline) == SortFrom(timeline, 1, <<>>)

\* timeline_sorted[:5]
TopN == 5

RECURSIVE PositiveSteps(_, _)
PositiveSteps(s, k) ==
    IF k > Len(s) THEN <<>>
    ELSE (IF s[k].duration_s # Null /\ s[k].duration_s # 0 /\ s[k].duration_s > 0
          THEN <<s[k]>> ELSE <<>>) \o PositiveSteps(s, k + 1)

\* mutant of Bottlenecks: the first five steps, whatever their duration
\* (analyze_sql of the GUI does this)
Bottlenecks_Unfiltered(timeline_sorted) ==
    Slice(timeline_sorted, 1, Min(TopN, Len(timeline_sorted)))

\* for step in timeline_sorted[:5]: if step['duration_s'] and step['duration_s'] > 0
Bottlenecks(timeline_sorted) ==
    PositiveSteps(Slice(timeline_sorted, 1, Min(TopN, Len(timeline_sorted))), 1)

\* ---- the queries handed to the analyzer ----
\* " SELECT x FROM customers c JOIN orders o ON c.customer_id = o.customer_id;"
QueryJoin ==
    <<" ", "SELECT", " ", "x", " ", "FROM", " ", "customers", " ", "c", " ",
      "JOIN", " ", "orders", " ", "o", " ", "ON", " ", "c", ".", "customer_id",
      " ", "=", " ", "o", ".", "customer_id", ";">>

\* "(SELECT x FROM (SELECT y FROM t))"
QueryNested ==
    <<"(", "SELECT", " ", "x", " ", "FROM", " ", "(", "SELECT", " ", "y", " ",
      "FROM", " ", "t", ")", ")">>

\* "SELECT x FROM customers JOIN orders WHERE x IN (SELECT 1) AND y IN ( select 2)"
QueryTwoSubs ==
    <<"SELECT", " ", "x", " ", "FROM", " ", "customers", " ", "JOIN", " ",
      "orders", " ", "WHERE", " ", "x", " ", "IN", " ", "(", "SELECT", " ", "1",
      ")", " ", "AND", " ", "y", " ", "IN", " ", "(", " ", "select", " ", "2", ")">>

\* "select a from orders join products"
QueryCross ==
    <<"select", " ", "a", " ", "from", " ", "orders", " ", "join", " ", "products">>

\* "SELECT a FROM customers JOIN orders JOIN t WHERE a IN (SELECT 1);;"
QueryThree ==
    <<"SELECT", " ", "a", " ", "FROM", " ", "customers", " ", "JOIN", " ",
      "orders", " ", "JOIN", " ", "t", " ", "WHERE", " ", "a", " ", "IN", " ",
      "(", "SELECT", " ", "1", ")", ";", ";">>

\* "SELECT a FROM products WHERE a IN (SELECT b FROM products"
QueryUnbalanced ==
    <<"SELECT", " ", "a", " ", "FROM", " ", "products", " ", "WHERE", " ", "a",
      " ", "IN", " ", "(", "SELECT", " ", "b", " ", "FROM", " ", "products">>

Queries ==
    {QueryJoin, QueryNested, QueryTwoSubs, QueryCross, QueryThree, QueryUnbalanced}

\* the databases the connection may be open on: the sample schema, whole or
\* with tables missing
Databases == {SampleTables, {"orders"}, {}}

\* the plan rows of a successful EXPLAIN QUERY PLAN
PlanRows(n) == [k \in 1..n |-> "plan_row_" \o ToString(k)]
ExplainResults ==
    {[ok |-> FALSE, rows |-> <<>>]}
    \cup {[ok |-> TRUE, rows |-> PlanRows(n)] : n \in 0..MaxPlanRows}

\* a table name the PRAGMA statement parses
PlainName(t) == t \notin {"", "SELECT"}
PragmaChoices(left, right) ==
    {<<a, b>> : a \in (IF PlainName(left) THEN {TRUE} ELSE {TRUE, FALSE}),
                b \in (IF PlainName(right) THEN {TRUE} ELSE {TRUE, FALSE})}

\* ---- state ----
VARIABLES
    db,             \* the tables of the database behind conn
    pc,             \* where the running call is
    op,             \* the function the caller invoked
    issued,         \* the statements issued to conn by the running call, in order
    sql, join_count, subquery_count, tables, explain, full_dur, timeline,
    table_costs, join_costs, subqueries, subq_costs, i, j, idx,
                    \* the locals of analyze_query
    report,         \* what analyze_query returned
    raised,         \* the exception that escaped the call (NoneVal: none)
    shown,          \* the error the GUI showed in a message box (NoneVal: none)
    args, ret       \* arguments and result of a direct call of a helper

locals == <<sql, join_count, subquery_count, tables, explain, full_dur, timeline,
            table_costs, join_costs, subqueries, subq_costs, i, j, idx>>
vars == <<db, pc, op, issued, locals, report, raised, shown, args, ret>>

NoReport == [returned |-> FALSE]
NoArgs == [none |-> TRUE]

Fresh ==
    /\ pc = "idle"
    /\ op = "none"
    /\ issued = <<>>
    /\ sql = <<>> /\ join_count = 0 /\ subquery_count = 0 /\ tables = <<>>
    /\ explain = <<>> /\ full_dur = Null /\ timeline = <<>>
    /\ table_costs = <<>> /\ join_costs = <<>> /\ subqueries = <<>>
    /\ subq_costs = <<>> /\ i = 0 /\ j = 0 /\ idx = 0
    /\ report = NoReport
    /\ raised = NoneVal
    /\ shown = NoneVal
    /\ args = NoArgs /\ ret = NoArgs

Init == db \in Databases /\ Fresh

\* an exception escapes analyze_query: the call ends without a report
Raise(e, log) ==
    /\ pc' = "done"
    /\ raised' = e
    /\ issued' = issued \o log
    /\ UNCHANGED <<db, op, locals, report, shown, args, ret>>

\* analyze_query, lines 289-296
analyze_begin ==
    /\ pc = "idle"
    /\ \E q \in Queries :
        LET text == RStripSemi(Strip(q)) IN
        /\ sql' = text
        /\ join_count' = count_joins_and_subqueries(text)[1]
        /\ subquery_count' = count_joins_and_subqueries(text)[2]
        /\ \E ts \in extract_table_names(text) : tables' = ts
    /\ op' = "analyze_query"
    /\ pc' = "explain"
    /\ UNCHANGED <<db, issued, explain, full_dur, timeline, table_costs, join_costs,
                   subqueries, subq_costs, i, j, idx, report, raised, shown, args, ret>>

\* analyze_query, line 298
analyze_explain ==
    /\ pc = "explain"
    /\ \E e \in ExplainResults :
        LET r == explain_query_plan(Concat(sql), e.ok, e.rows) IN
        IF r.exc # NoneVal THEN Raise(r.exc, r.log)
        ELSE /\ explain' = r.rows
             /\ issued' = issued \o r.log
             /\ pc' = "time_full"
             /\ UNCHANGED <<db, op, sql, join_count, subquery_count, tables, full_dur,
                            timeline, table_costs, join_costs, subqueries, subq_costs,
                            i, j, idx, report, raised, shown, args, ret>>

\* analyze_query, lines 300-310
analyze_time_full ==
    /\ pc = "time_full"
    /\ \E ok \in BOOLEAN, elapsed \in Dur :
        LET o == ProbeOutcome(ok)
            r == time_query(Concat(sql), TRUE, 1, o, <<o>>, elapsed)
        IN
        IF r.exc # NoneVal THEN Raise(r.exc, r.log)
        ELSE /\ full_dur' = r.dur
             /\ timeline' = [k \in 1..Len(explain) |->
                                Step(explain[k], "explain_step", 0, explain[k])]
             /\ issued' = issued \o r.log
             /\ pc' = "table_costs"
             /\ UNCHANGED <<db, op, sql, join_count, subquery_count, tables, explain,
                            table_costs, join_costs, subqueries, subq_costs,
                            i, j, idx, report, raised, shown, args, ret>>

\* analyze_query, lines 312-319
analyze_table_costs ==
    /\ pc = "table_costs"
    /\ \E el \in [1..Len(tables) -> Dur] :
        LET r == estimate_table_costs(tables, db, el) IN
        IF r.exc # NoneVal THEN Raise(r.exc, r.log)
        ELSE /\ table_costs' = r.costs
             /\ timeline' = timeline \o
                    [k \in 1..Len(r.costs) |->
                        Step("Table scan: " \o r.costs[k][1], "table_scan",
                             OrZero(r.costs[k][2]), "COUNT(*) estimate")]
             /\ join_costs' = <<>>
             /\ i' = 1 /\ j' = 2
             /\ issued' = issued \o r.log
             /\ pc' = "join_costs"
             /\ UNCHANGED <<db, op, sql, join_count, subquery_count, tables, explain,
                            full_dur, subqueries, subq_costs, idx, report, raised, shown,
                            args, ret>>

\* mutant of MorePairs: the outer loop stops one table early
MorePairs_StopsEarly == Len(tables) >= 2 /\ i < Len(tables) - 1

\* the pair loops of lines 322-323 have a pair left
MorePairs == Len(tables) >= 2 /\ i < Len(tables)

\* analyze_query, lines 324-329: one pass of the inner loop
analyze_join ==
    /\ pc = "join_costs"
    /\ MorePairs
    /\ LET left == tables[i]
           right == tables[j]
       IN
       \E pragmaOk \in PragmaChoices(left, right), elapsed \in Dur :
       \E c \in (IF CommonColumns(left, right, db, pragmaOk) = {} THEN {NoneVal}
                 ELSE CommonColumns(left, right, db, pragmaOk)) :
        LET r == estimate_join_cost(left, right, NoneVal, db, pragmaOk, c, TRUE, elapsed)
            key == left \o "<> " \o right
        IN
        IF r.exc # NoneVal THEN Raise(r.exc, r.log)
        ELSE /\ join_costs' = DictSet(join_costs, key, r.dur)
             /\ timeline' = Append(timeline,
                    Step("Join " \o left \o " >< " \o right, "join", OrZero(r.dur),
                         "pairwise join COUNT(*)"))
             /\ IF j < Len(tables) THEN i' = i /\ j' = j + 1
                ELSE i' = i + 1 /\ j' = i + 2
             /\ issued' = issued \o r.log
             /\ UNCHANGED <<db, pc, op, sql, join_count, subquery_count, tables, explain,
                            full_dur, table_costs, subqueries, subq_costs, idx, report,
                            raised, shown, args, ret>>

\* analyze_query, lines 331-333: the pair loops are over, or were not entered
analyze_extract_subqueries ==
    /\ pc = "join_costs"
    /\ ~MorePairs
    /\ subqueries' = extract_subqueries(sql)
    /\ subq_costs' = <<>>
    /\ idx' = 1
    /\ pc' = "subqueries"
    /\ UNCHANGED <<db, op, issued, sql, join_count, subquery_count, tables, explain,
                   full_dur, timeline, table_costs, join_costs, i, j, report, raised, shown,
                   args, ret>>

\* ssql = sub.strip(); if ssql[0] == '(' and ssql[-1] == ')': ssql = ssql[1:-1]
StripOuterParens(sub) ==
    LET ssql == Strip(sub) IN
    IF ssql[1] = "(" /\ ssql[Len(ssql)] = ")" THEN Slice(ssql, 2, Len(ssql) - 1)
    ELSE ssql

\* analyze_query, lines 336-343: one pass of the loop over the fragments
analyze_subquery ==
    /\ pc = "subqueries"
    /\ idx <= Len(subqueries)
    /\ \E ok \in BOOLEAN, elapsed \in Dur :
        LET ssql == Concat(StripOuterParens(subqueries[idx]))
            o == ProbeOutcome(ok)
            r == time_query(ssql, TRUE, 1, o, <<o>>, elapsed)
        IN
        IF r.exc # NoneVal THEN Raise(r.exc, r.log)
        ELSE /\ subq_costs' = DictSet(subq_costs, "subquery_" \o ToString(idx), r.dur)
             /\ timeline' = Append(timeline,
                    Step("Subquery " \o ToString(idx), "subquery", OrZero(r.dur), ssql))
             /\ idx' = idx + 1
             /\ issued' = issued \o r.log
             /\ UNCHANGED <<db, pc, op, sql, join_count, subquery_count, tables, explain,
                            full_dur, table_costs, join_costs, subqueries, i, j, report,
                            raised, shown, args, ret>>

\* analyze_query, lines 345-364
analyze_finish ==
    /\ pc = "subqueries"
    /\ idx > Len(subqueries)
    /\ LET all == Append(timeline,
                    Step("Full query execution", "query", OrZero(full_dur), Concat(sql)))
           timeline_sorted == SortedDesc(all)
       IN
       /\ timeline' = all
       /\ report' = [join_count |-> join_count,
                     subquery_count |-> subquery_count,
                     tables |-> tables,
                     explain |-> explain,
                     full_query_duration_s |-> full_dur,
                     timeline |-> timeline_sorted,
                     bottlenecks |-> Bottlenecks(timeline_sorted),
                     table_costs |-> table_costs,
                     join_costs |-> join_costs,
                     subquery_costs |-> subq_costs]
    /\ pc' = "done"
    /\ UNCHANGED <<db, op, issued, sql, join_count, subquery_count, tables, explain,
                   full_dur, table_costs, join_costs, subqueries, subq_costs, i, j, idx,
                   raised, shown, args, ret>>

\* the caller takes the result; the next call starts afresh
Return ==
    /\ pc = "done"
    /\ pc' = "idle"
    /\ op' = "none"
    /\ issued' = <<>>
    /\ sql' = <<>> /\ join_count' = 0 /\ subquery_count' = 0 /\ tables' = <<>>
    /\ explain' = <<>> /\ full_dur' = Null /\ timeline' = <<>>
    /\ table_costs' = <<>> /\ join_costs' = <<>> /\ subqueries' = <<>>
    /\ subq_costs' = <<>> /\ i' = 0 /\ j' = 0 /\ idx' = 0
    /\ report' = NoReport
    /\ raised' = NoneVal
    /\ shown' = NoneVal
    /\ args' = NoArgs /\ ret' = NoArgs
    /\ UNCHANGED db

\* ---- sql_gui_analyzer.py: the analysis behind the GUI's Analyze button ----
RECURSIVE GuiTokenEnd(_, _)
\* last position of the run [^\s;]+ that starts at position p
GuiTokenEnd(s, p) ==
    IF p + 1 <= Len(s) /\ s[p + 1] \notin {" ", ";"} THEN GuiTokenEnd(s, p + 1) ELSE p

RECURSIVE GuiTokens(_, _, _)
\* re.findall(r"<kw>\s+([^\s;]+)", sql, re.IGNORECASE) from position p on
GuiTokens(s, p, kw) ==
    IF p > Len(s) THEN {}
    ELSE LET q == SkipSpaces(s, p + 1) IN
         IF UpperOf(s[p]) = kw /\ q > p + 1 /\ q <= Len(s) /\ s[q] # ";"
         THEN {Concat(Slice(s, q, GuiTokenEnd(s, q)))}
              \cup GuiTokens(s, GuiTokenEnd(s, q) + 1, kw)
         ELSE GuiTokens(s, p + 1, kw)

\* extract_tables(sql): the matched tokens as they stand
extract_tables(s) == Orderings(GuiTokens(s, 1, "FROM") \cup GuiTokens(s, 1, "JOIN"))

\* explain_query(conn, sql)
explain_query(stmt, ok, rows) ==
    [rows |-> IF ok THEN rows ELSE <<"EXPLAIN FAILED">>,
     log |-> <<Issued("EXPLAIN QUERY PLAN " \o stmt, "explain", ok)>>]

\* time_query(conn, sql) of the GUI: one execution, no warmup; it returns
\* (elapsed, None) or (None, error text)
gui_time_query(stmt, out, elapsed) ==
    [dur |-> IF out.ok THEN elapsed ELSE Null,
     second |-> IF out.ok THEN NoneVal ELSE out.val,
     log |-> <<Issued(stmt, "timed", out.ok)>>]

\* table_scan_time(conn, table): 0 when the probe fails
table_scan_time(table, exists, elapsed) ==
    [dur |-> IF table \in exists THEN elapsed ELSE 0,
     log |-> <<Issued("SELECT COUNT(*) FROM " \o table, "timed", table \in exists)>>]

\* join_cost(conn, t1, t2): the cross probe, 0 when it fails
join_cost(t1, t2, exists, elapsed) ==
    LET valid == t1 \in exists /\ t2 \in exists /\ t1 # t2 IN
    [dur |-> IF valid THEN elapsed ELSE 0,
     log |-> <<Issued("SELECT COUNT(*) FROM " \o t1 \o ", " \o t2 \o " LIMIT 2000",
                      "timed", valid)>>]

\* the timeline entries of analyze_sql
GuiStep(name, type, duration) == [name |-> name, type |-> type, duration |-> duration]

RECURSIVE GuiInsertDesc(_, _)
GuiInsertDesc(sorted, x) ==
    IF sorted = <<>> THEN <<x>>
    ELSE IF Head(sorted).duration >= x.duration
         THEN <<Head(sorted)>> \o GuiInsertDesc(Tail(sorted), x)
         ELSE <<x>> \o sorted

RECURSIVE GuiSortFrom(_, _, _)
GuiSortFrom(tl, k, acc) ==
    IF k > Len(tl) THEN acc ELSE GuiSortFrom(tl, k + 1, GuiInsertDesc(acc, tl[k]))

\* sorted(timeline, key=lambda x: x["duration"], reverse=True)
GuiSortedDesc(tl) == GuiSortFrom(tl, 1, <<>>)

\* the pairs (i, j), i < j, of 1..n in the order of the loops of lines 251-252
RECURSIVE PairsFrom(_, _, _)
PairsFrom(n, a, b) ==
    IF a >= n THEN <<>>
    ELSE IF b > n THEN PairsFrom(n, a + 1, a + 2)
    ELSE <<<<a, b>>>> \o PairsFrom(n, a, b + 1)

\* the queries typed into the GUI; the last is blank
GuiQueries == {QueryJoin, QueryNested, QueryCross, <<" ">>}

\* analyze_sql, lines 228-235
gui_begin ==
    /\ pc = "idle"
    /\ op' = "analyze_sql"
    /\ \E q \in GuiQueries :
        LET text == Strip(q) IN
        IF text = <<>>
        THEN /\ shown' = "Please enter SQL query."
             /\ pc' = "done"
             /\ UNCHANGED <<db, issued, locals, report, raised, args, ret>>
        ELSE \E ts \in extract_tables(text), e \in ExplainResults :
             LET r == explain_query(Concat(text), e.ok, e.rows) IN
             /\ sql' = text
             /\ join_count' = count_joins_and_subqueries(text)[1]
             /\ subquery_count' = count_joins_and_subqueries(text)[2]
             /\ tables' = ts
             /\ explain' = r.rows
             /\ issued' = r.log
             /\ pc' = "gui_time"
             /\ UNCHANGED <<db, full_dur, timeline, table_costs, join_costs, subqueries,
                            subq_costs, i, j, idx, report, raised, shown, args, ret>>

\* analyze_sql, lines 236-240
gui_time ==
    /\ pc = "gui_time"
    /\ \E ok \in BOOLEAN, elapsed \in Dur :
        LET r == gui_time_query(Concat(sql), ProbeOutcome(ok), elapsed) IN
        /\ issued' = issued \o r.log
        /\ IF r.second # NoneVal
           THEN /\ shown' = r.second
                /\ pc' = "done"
                /\ UNCHANGED full_dur
           ELSE /\ full_dur' = r.dur
                /\ pc' = "gui_probes"
                /\ UNCHANGED shown
    /\ UNCHANGED <<db, op, sql, join_count, subquery_count, tables, explain, timeline,
                   table_costs, join_costs, subqueries, subq_costs, i, j, idx, report,
                   raised, args, ret>>

\* analyze_sql, lines 242-267
gui_probes ==
    /\ pc = "gui_probes"
    /\ LET n == Len(tables)
           pairs == PairsFrom(n, 1, 2)
       IN
       \E el \in [1..n -> Dur], ej \in [1..Len(pairs) -> Dur] :
        LET scan == [k \in 1..n |-> table_scan_time(tables[k], db, el[k])]
            join == [k \in 1..Len(pairs) |->
                        join_cost(tables[pairs[k][1]], tables[pairs[k][2]], db, ej[k])]
            all == [k \in 1..n |->
                        GuiStep("Table scan: " \o tables[k], "table_scan", scan[k].dur)]
                   \o [k \in 1..Len(pairs) |->
                        GuiStep("Join " \o tables[pairs[k][1]] \o " >< "
                                \o tables[pairs[k][2]], "join", join[k].dur)]
                   \o <<GuiStep("Full query execution", "query", full_dur)>>
            timeline_sorted == GuiSortedDesc(all)
        IN
        /\ timeline' = all
        /\ report' = [timeline |-> timeline_sorted,
                      bottlenecks |-> Slice(timeline_sorted, 1,
                                            Min(TopN, Len(timeline_sorted)))]
        /\ issued' = issued
                     \o [k \in 1..n |-> scan[k].log[1]]
                     \o [k \in 1..Len(pairs) |-> join[k].log[1]]
    /\ pc' = "done"
    /\ UNCHANGED <<db, op, sql, join_count, subquery_count, tables, explain, full_dur,
                   table_costs, join_costs, subqueries, subq_costs, i, j, idx, raised,
                   shown, args, ret>>

\* ---- direct calls of the helpers ----
\* the text alphabet of the direct extract_subqueries calls
SubAlphabet == {"(", ")", " ", "SELECT", "select", "x"}
Texts == UNION {[1..n -> SubAlphabet] : n \in 0..MaxLen}

\* the table names of the direct estimator calls: tables of the sample
\* schema, a table no database holds, and a keyword
ProbeNames == {"customers", "orders", "products", "t", "SELECT"}
TableLists == UNION {[1..n -> {"customers", "orders", "t"}] : n \in 0..MaxTables}
JoinConditions == {NoneVal, "", "customers.customer_id = orders.customer_id"}

\* the texts of the direct extract_table_names calls
TableAlphabet == {"FROM", "join", " ", "(", "t", ","}
\* "FROM customers c JOIN orders o ON c.customer_id = o.customer_id"
TableExample ==
    <<"FROM", " ", "customers", " ", "c", " ", "JOIN", " ", "orders", " ", "o",
      " ", "ON", " ", "c", ".", "customer_id", " ", "=", " ", "o", ".",
      "customer_id">>
\* "SELECT a FROM orders o JOIN (orders) ON x = (SELECT b FROM orders)"
TableTwice ==
    <<"SELECT", " ", "a", " ", "FROM", " ", "orders", " ", "o", " ", "JOIN", " ",
      "(", "orders", ")", " ", "ON", " ", "x", " ", "=", " ", "(", "SELECT",
      " ", "b", " ", "FROM", " ", "orders", ")">>
\* "from FROM t JOIN join u, v"
TableKeywordToken ==
    <<"from", " ", "FROM", " ", "t", " ", "JOIN", " ", "join", " ", "u", ",",
      " ", "v">>
TableTexts ==
    UNION {[1..n -> TableAlphabet] : n \in 0..MaxLen}
        \cup {TableExample, TableTwice, TableKeywordToken} \cup Queries

Called(name, a, r, log, e) ==
    /\ pc' = "done"
    /\ op' = name
    /\ args' = a
    /\ ret' = r
    /\ issued' = log
    /\ raised' = e
    /\ UNCHANGED <<db, locals, report, shown>>

call_extract_subqueries ==
    /\ pc = "idle"
    /\ \E text \in Texts \cup Queries :
           Called("extract_subqueries", [sql |-> text],
                  [subs |-> extract_subqueries(text)], <<>>, NoneVal)

call_time_query ==
    /\ pc = "idle"
    /\ \E warmup \in BOOLEAN, iterations \in 0..MaxIter, wOut \in ExecOutcomes,
          elapsed \in Dur :
       \E outs \in [1..iterations -> ExecOutcomes] :
           LET r == time_query("SELECT 1", warmup, iterations, wOut, outs, elapsed) IN
           Called("time_query",
                  [sql |-> "SELECT 1", warmup |-> warmup, iterations |-> iterations,
                   wOut |-> wOut, outs |-> outs, elapsed |-> elapsed],
                  [dur |-> r.dur, second |-> r.second], r.log, r.exc)

call_explain_query_plan ==
    /\ pc = "idle"
    /\ \E q \in Queries, e \in ExplainResults :
           LET r == explain_query_plan(Concat(q), e.ok, e.rows) IN
           Called("explain_query_plan", [sql |-> Concat(q), ok |-> e.ok],
                  [rows |-> r.rows], r.log, r.exc)

call_estimate_table_costs ==
    /\ pc = "idle"
    /\ \E ts \in TableLists :
       \E el \in [1..Len(ts) -> Dur] :
           LET r == estimate_table_costs(ts, db, el) IN
           Called("estimate_table_costs", [tables |-> ts, el |-> el],
                  [costs |-> r.costs], r.log, r.exc)

call_estimate_join_cost ==
    /\ pc = "idle"
    /\ \E left \in ProbeNames, right \in ProbeNames, jc \in JoinConditions,
          condOk \in BOOLEAN, elapsed \in Dur :
       \E pragmaOk \in PragmaChoices(left, right) :
       \E c \in (IF CommonColumns(left, right, db, pragmaOk) = {} THEN {NoneVal}
                 ELSE CommonColumns(left, right, db, pragmaOk)) :
           LET r == estimate_join_cost(left, right, jc, db, pragmaOk, c, condOk, elapsed) IN
           Called("estimate_join_cost",
                  [left |-> left, right |-> right, join_condition |-> jc,
                   pragmaOk |-> pragmaOk, c |-> c, condOk |-> condOk],
                  [dur |-> r.dur, sql |-> r.sql], r.log, r.exc)

call_extract_table_names ==
    /\ pc = "idle"
    /\ \E text \in TableTexts :
       \E ts \in extract_table_names(text) :
           Called("extract_table_names", [sql |-> text], [tables |-> ts],
                  <<>>, NoneVal)

Next ==
    \/ analyze_begin
    \/ analyze_explain
    \/ analyze_time_full
    \/ analyze_table_costs
    \/ analyze_join
    \/ analyze_extract_subqueries
    \/ analyze_subquery
    \/ analyze_finish
    \/ gui_begin
    \/ gui_time
    \/ gui_probes
    \/ call_extract_subqueries
    \/ call_time_query
    \/ call_explain_query_plan
    \/ call_estimate_table_costs
    \/ call_estimate_join_cost
    \/ call_extract_table_names
    \/ Return

Spec == Init /\ [][Next]_vars

\* ======================= properties =======================
\* analyze_query has returned or raised
AnalyzeDone == op = "analyze_query" /\ pc = "done"
\* analyze_query has returned its report
Reported == AnalyzeDone /\ raised = NoneVal

\* the n-th issued statement is a timed execution of stmt that failed
FailedTimed(stmt) ==
    \E n \in 1..Len(issued) : issued[n] = Issued(stmt, "timed", FALSE)

\* C1: if the timed execution of the full query raises an error, analyze
\* aborts: it returns no report and the error reaches the caller.
C1_FullQueryFailureAborts ==
    (pc = "done" /\ op \in {"analyze_query", "analyze_sql"} /\ FailedTimed(Concat(sql)))
        => (report = NoReport /\ (raised # NoneVal \/ shown # NoneVal))

\* the steps of a sequence of steps with the given type and name
StepsNamed(tl, type, name) ==
    {n \in 1..Len(tl) : tl[n].type = type /\ tl[n].name = name}

\* C2: every probe whose measured duration is null (a table scan, a
\* pairwise join, a subquery, the full query) has its step in the reported
\* timeline carry duration null, not 0.0.
C2_NullDurationReportedAsNull ==
    Reported =>
        /\ \A k \in 1..Len(table_costs) :
              table_costs[k][2] = Null =>
                \A n \in StepsNamed(report.timeline, "table_scan",
                                    "Table scan: " \o table_costs[k][1]) :
                    report.timeline[n].duration_s = Null
        /\ \A k \in 1..Len(subq_costs) :
              subq_costs[k][2] = Null =>
                \A n \in StepsNamed(report.timeline, "subquery",
                                    "Subquery " \o ToString(k)) :
                    report.timeline[n].duration_s = Null
        /\ \A a \in 1..Len(tables), b \in 1..Len(tables) :
              (a < b /\ DictGet(join_costs, tables[a] \o "<> " \o tables[b]) = Null) =>
                \A n \in StepsNamed(report.timeline, "join",
                                    "Join " \o tables[a] \o " >< " \o tables[b]) :
                    report.timeline[n].duration_s = Null
        /\ full_dur = Null =>
              \A n \in StepsNamed(report.timeline, "query", "Full query execution") :
                  report.timeline[n].duration_s = Null

\* the number of steps of a timeline with a duration above zero
PositiveCount(tl) ==
    Cardinality({n \in 1..Len(tl) : tl[n].duration_s # Null /\ tl[n].duration_s > 0})

Direct(name) == op = name /\ pc = "done"

\* the number of units u in s[a..b]
CountIn(s, a, b, u) == Cardinality({n \in a..b : s[n] = u})

\* the parenthesis closing the one at position p: the first position from p
\* on up to which as many ")" as "(" were seen; 0 when there is none
ClosingParen(s, p) ==
    LET balanced == {e \in p..Len(s) : CountIn(s, p, e, "(") = CountIn(s, p, e, ")")}
    IN IF balanced = {} THEN 0
       ELSE CHOOSE e \in balanced : \A f \in balanced : e <= f

\* the positions of the "( SELECT" openers that have a closing parenthesis
ClosedOpeners(s) ==
    {p \in 1..Len(s) :
        /\ s[p] = "("
        /\ \E q \in (p + 1)..Len(s) :
              /\ s[q] \in {"SELECT", "select"}
              /\ \A r \in (p + 1)..(q - 1) : s[r] = " "
        /\ ClosingParen(s, p) # 0}

\* "(SELECT y FROM t)", the inner subquery of QueryNested
InnerOfNested == <<"(", "SELECT", " ", "y", " ", "FROM", " ", "t", ")">>

KeyOf(step) == IF step.duration_s = Null THEN 0 ELSE step.duration_s

\* the place a stable sort by key, largest first, gives the a-th step
StableRank(tl, a) ==
    Cardinality({b \in 1..Len(tl) : KeyOf(tl[b]) > KeyOf(tl[a])})
    + Cardinality({b \in 1..a : KeyOf(tl[b]) = KeyOf(tl[a])})

\* C5: the reported timeline is a permutation of the inserted steps (none
\* lost, duplicated or re-tagged), ordered by duration non-increasing with
\* null compared as 0, steps with equal keys keeping their insertion order.
C5_TimelineStableSortedPermutation ==
    Reported =>
        LET sorted == report.timeline IN
        /\ Len(sorted) = Len(timeline)
        /\ \A a \in 1..Len(timeline) : sorted[StableRank(timeline, a)] = timeline[a]
        /\ \A m \in 1..Len(sorted), n \in 1..Len(sorted) :
              m < n => KeyOf(sorted[m]) >= KeyOf(sorted[n])

\* C5 witness: the sort moved a later step ahead of an earlier one, and two
\* different steps tied
C5_Witness ==
    /\ Reported
    /\ \E a \in 1..Len(timeline), b \in 1..Len(timeline) :
          a < b /\ KeyOf(timeline[a]) < KeyOf(timeline[b])
    /\ \E a \in 1..Len(timeline), b \in 1..Len(timeline) :
          a < b /\ KeyOf(timeline[a]) = KeyOf(timeline[b]) /\ timeline[a] # timeline[b]

\* the place of the pair (a, b), a < b, among the pairs of 1..n in the order
\* (1,2), (1,3), ..., (1,n), (2,3), ...
PairPlace(n, a, b) == (a - 1) * n - ((a - 1) * a) \div 2 + (b - a)

\* C6: before sorting the timeline holds, in this order: one explain_step
\* per plan row, one table_scan step per extracted table, one join step per
\* pair i < j of the table sequence in pair order (none below 2 tables), one
\* subquery step per fragment in discovery order, and one query step, last.
C6_InsertionOrder ==
    Reported =>
        LET e == Len(explain)
            n == Len(tables)
            pairs == (n * (n - 1)) \div 2
            frags == extract_subqueries(sql)
            m == Len(frags)
        IN /\ Len(timeline) = e + n + pairs + m + 1
           /\ \A k \in 1..e :
                 timeline[k].type = "explain_step" /\ timeline[k].name = explain[k]
           /\ \A k \in 1..n :
                 /\ timeline[e + k].type = "table_scan"
                 /\ timeline[e + k].name = "Table scan: " \o tables[k]
           /\ \A a \in 1..n, b \in 1..n :
                 a < b =>
                    /\ timeline[e + n + PairPlace(n, a, b)].type = "join"
                    /\ timeline[e + n + PairPlace(n, a, b)].name
                          = "Join " \o tables[a] \o " >< " \o tables[b]
           /\ \A k \in 1..m :
                 /\ timeline[e + n + pairs + k].type = "subquery"
                 /\ timeline[e + n + pairs + k].name = "Subquery " \o ToString(k)
                 /\ timeline[e + n + pairs + k].detail
                       = Concat(SubSeq(frags[k], 2, Len(frags[k]) - 1))
           /\ timeline[Len(timeline)].type = "query"

\* C6 witness: two plan rows, three tables (three pairs), a fragment and
\* the query step
C6_Witness ==
    /\ Reported
    /\ Len(explain) = 2
    /\ Len(tables) = 3
    /\ Cardinality({k \in 1..Len(timeline) : timeline[k].type = "join"}) = 3
    /\ Cardinality({k \in 1..Len(timeline) : timeline[k].type = "subquery"}) = 1

\* the probe statement of a table
CountStmt(t) == "SELECT COUNT(*) FROM " \o t

\* C7: estimate_table_costs returns a mapping with exactly one entry per
\* input table; a table whose COUNT(*) probe fails maps to null; a failure
\* never keeps the remaining tables from being probed and given an entry.
C7_TableCostsOneEntryPerTable ==
    Direct("estimate_table_costs") =>
        LET ts == args.tables
            costs == ret.costs
        IN /\ raised = NoneVal
           /\ DictKeys(costs) = {ts[k] : k \in 1..Len(ts)}
           /\ Len(costs) = Cardinality(DictKeys(costs))
           /\ \A k \in 1..Len(ts) :
                 /\ \E n \in 1..Len(issued) :
                       issued[n].stmt = CountStmt(ts[k]) /\ issued[n].phase = "timed"
                 /\ FailedTimed(CountStmt(ts[k])) => DictGet(costs, ts[k]) = Null
                 /\ ~FailedTimed(CountStmt(ts[k])) => DictGet(costs, ts[k]) = args.el[
                       CHOOSE m \in 1..Len(ts) :
                          ts[m] = ts[k] /\ \A l \in (m + 1)..Len(ts) : ts[l] # ts[k]]

\* C7 witness: the first table's probe failed, the second table was still
\* probed and has its duration
C7_Witness ==
    /\ Direct("estimate_table_costs")
    /\ args.tables = <<"t", "customers">>
    /\ DictGet(ret.costs, "t") = Null
    /\ DictGet(ret.costs, "customers") # Null

\* the first statement analyze_query issued, the explain-plan request, was
\* rejected by the database
ExplainRejected ==
    Len(issued) >= 1 /\ issued[1].phase = "explain" /\ ~issued[1].ok

\* C8: when the database rejects the explain-plan request, explain_query_plan
\* returns an empty sequence and raises nothing; the analysis goes on through
\* the remaining stages and its timeline holds no explain_step.
C8_ExplainFailureIsEmptyPlan ==
    /\ (Direct("explain_query_plan") /\ ~args.ok)
          => (ret.rows = <<>> /\ raised = NoneVal)
    /\ (op = "analyze_query" /\ pc # "explain" /\ ExplainRejected)
          => (raised = NoneVal /\ explain = <<>>)
    /\ (AnalyzeDone /\ ExplainRejected)
          => /\ report # NoReport
             /\ \A n \in 1..Len(report.timeline) :
                   report.timeline[n].type # "explain_step"
             /\ \E n \in 1..Len(report.timeline) : report.timeline[n].type = "query"
             /\ Len(report.timeline) = Len(tables) + Len(join_costs) + Len(subqueries) + 1

\* C8 witness: an analysis whose explain-plan request was rejected returned
\* a report with table, join and subquery steps
C8_Witness ==
    /\ AnalyzeDone
    /\ ExplainRejected
    /\ report # NoReport
    /\ \E n \in 1..Len(report.timeline) : report.timeline[n].type = "join"
    /\ \E n \in 1..Len(report.timeline) : report.timeline[n].type = "subquery"

\* the column names the two tables share on this database
SharedColumns(left, right) ==
    (IF left \in db THEN Columns(left) ELSE {})
    \cap (IF right \in db THEN Columns(right) ELSE {})

FirstFailure(outs, iterations) ==
    LET bad == {k \in 1..iterations : ~outs[k].ok} IN
    IF bad = {} THEN 0 ELSE CHOOSE k \in bad : \A m \in bad : k <= m

FollowingTokenStart(s, p) ==
    LET after == {q \in (p + 1)..Len(s) : s[q] # " "} IN
    IF after = {} THEN 0
    ELSE LET q == CHOOSE m \in after : \A n \in after : m <= n IN
         IF q > p + 1 /\ s[q] \notin {",", ";"} THEN q ELSE 0

\* the last position of the token that starts at q
FollowingTokenEnd(s, q) ==
    CHOOSE e \in q..Len(s) :
        /\ \A n \in q..e : s[n] \notin {" ", ",", ";"}
        /\ (e = Len(s) \/ s[e + 1] \in {" ", ",", ";"})

\* position p holds the word kw (in any case), starting at a word boundary
\* and followed by whitespace and a token
KeywordWithToken(s, p, kw) ==
    /\ UpperOf(s[p]) = kw
    /\ (p > 1 => s[p - 1] \in Punct)
    /\ FollowingTokenStart(s, p) # 0

RECURSIVE IsKeywordUse(_, _, _)
\* the word at position p is used as the keyword kw: it is followed by a token
\* and is not itself (part of) the token that follows an earlier use of kw
IsKeywordUse(s, p, kw) ==
    /\ KeywordWithToken(s, p, kw)
    /\ \A e \in 1..(p - 1) :
          ~(/\ KeywordWithToken(s, e, kw)
            /\ FollowingTokenEnd(s, FollowingTokenStart(s, e)) >= p
            /\ IsKeywordUse(s, e, kw))

\* a token without its enclosing parentheses
NormalizedToken(tok) ==
    LET inner == {n \in 1..Len(tok) : tok[n] \notin {"(", ")"}} IN
    IF inner = {} THEN ""
    ELSE LET a == CHOOSE m \in inner : \A n \in inner : m <= n
             b == CHOOSE m \in inner : \A n \in inner : m >= n
         IN Concat(SubSeq(tok, a, b))

\* the normalized tokens that follow the FROM and JOIN keywords of s
ReferencedTables(s) ==
    {NormalizedToken(SubSeq(s, FollowingTokenStart(s, p),
                            FollowingTokenEnd(s, FollowingTokenStart(s, p)))) :
        p \in {n \in 1..Len(s) : IsKeywordUse(s, n, "FROM") \/ IsKeywordUse(s, n, "JOIN")}}

IsTimed(x) == x.phase = "timed"
TimedLog == SelectSeq(issued, IsTimed)

\* v is what the probe whose timed execution is x measured: a duration, or
\* null when the execution failed
MeasuredBy(v, x) == IF x.ok THEN v # Null /\ v >= 0 ELSE v = Null

\* the claim of C12 with the join keys written left, sep, right
RawCostMapsKeyed(sep) ==
    Reported =>
        LET n == Len(report.tables)
            pairs == (n * (n - 1)) \div 2
            frags == extract_subqueries(sql)
            m == Len(frags)
            tc == report.table_costs
            jc == report.join_costs
            sc == report.subquery_costs
        IN /\ Len(TimedLog) = 1 + n + pairs + m
           /\ Len(tc) = n
           /\ \A k \in 1..n :
                 /\ tc[k][1] = report.tables[k]
                 /\ MeasuredBy(tc[k][2], TimedLog[1 + k])
           /\ Len(jc) = pairs
           /\ \A a \in 1..n, b \in 1..n :
                 a < b =>
                    /\ jc[PairPlace(n, a, b)][1]
                          = report.tables[a] \o sep \o report.tables[b]
                    /\ MeasuredBy(jc[PairPlace(n, a, b)][2],
                                  TimedLog[1 + n + PairPlace(n, a, b)])
           /\ Len(sc) = m
           /\ \A k \in 1..m :
                 /\ sc[k][1] = "subquery_" \o ToString(k)
                 /\ MeasuredBy(sc[k][2], TimedLog[1 + n + pairs + k])

\* C12: the raw cost maps of the report hold exactly one key per extracted
\* table, one key "left<>right" per pair of tables with left before right in
\* the table sequence, and the keys "subquery_1" .. "subquery_k" for the k
\* fragments in discovery order; each value is the duration its probe
\* measured, or null when that probe failed.
C12_RawCostMapKeys == RawCostMapsKeyed("<>")

\* ---- C13 ----
\* the statements of the call that are not schema introspection, in the
\* order they were issued
NotPragma(x) == x.phase # "pragma"
Statements == SelectSeq(issued, NotPragma)

\* the number of statements other than schema introspection issued before
\* the x-th statement
StatementsBefore(x) == Cardinality({n \in 1..(x - 1) : NotPragma(issued[n])})

\* the statements a join probe of left and right can be
JoinStatements(left, right) ==
    {"SELECT COUNT(*) FROM " \o left \o ", " \o right \o " LIMIT 1000"}
    \cup {"SELECT COUNT(*) FROM " \o left \o " JOIN " \o right \o " ON "
               \o left \o "." \o c \o " = " \o right \o "." \o c :
           c \in UNION {Columns(t) : t \in SampleTables}}

\* statements a and a + 1 are one probe: the warmup execution and then the
\* timed execution of the same statement, which is one of stmts
ProbeAt(a, stmts) ==
    /\ Statements[a].phase = "warmup"
    /\ Statements[a + 1].phase = "timed"
    /\ Statements[a].stmt = Statements[a + 1].stmt
    /\ Statements[a].stmt \in stmts

\* C13: within one analyze_query call the statements reach the connection
\* one after another in this order: the explain-plan request for the query,
\* the full query (warmup, then one timed run), one COUNT(*) probe per
\* extracted table in table-sequence order, the join probes of the pairs
\* i < j in pair order (none below 2 tables; the schema introspection of a
\* pair comes right before its probe), one probe per fragment with its outer
\* parentheses stripped (none without fragments); at no point of the call
\* has a table, join or subquery probe been issued before the full query
\* was timed.
C13_StatementOrder ==
    LET q == Concat(sql)
        n == Len(tables)
        pairs == (n * (n - 1)) \div 2
        frags == extract_subqueries(sql)
        m == Len(frags)
    IN /\ (op = "analyze_query" /\ Len(issued) >= 1) =>
              /\ issued[1].phase = "explain"
              /\ issued[1].stmt = "EXPLAIN QUERY PLAN " \o q
              /\ Len(issued) >= 2 =>
                    /\ Len(issued) >= 3
                    /\ issued[2].phase = "warmup" /\ issued[2].stmt = q
                    /\ issued[3].phase = "timed" /\ issued[3].stmt = q
       /\ Reported =>
              /\ Len(Statements) = 3 + 2 * n + 2 * pairs + 2 * m
              /\ \A k \in 1..n : ProbeAt(3 + 2 * k - 1, {CountStmt(tables[k])})
              /\ \A a \in 1..n, b \in 1..n :
                    a < b => ProbeAt(3 + 2 * n + 2 * PairPlace(n, a, b) - 1,
                                     JoinStatements(tables[a], tables[b]))
              /\ \A k \in 1..m :
                    ProbeAt(3 + 2 * n + 2 * pairs + 2 * k - 1,
                            {Concat(SubSeq(frags[k], 2, Len(frags[k]) - 1))})
              /\ \A x \in 1..Len(issued) :
                    ~NotPragma(issued[x]) =>
                       \E p \in 1..pairs :
                           StatementsBefore(x) = 3 + 2 * n + 2 * (p - 1)

\* C13 witness: a call with three tables, so three join probes after
\* schema introspection, and one fragment has issued all its statements:
\* 1 explain, 2 for the full query, 6 for the tables, 6 for the pairs and 2
\* for the fragment
C13_Witness ==
    /\ Reported
    /\ Len(tables) = 3
    /\ Len(extract_subqueries(sql)) = 1
    /\ Len(Statements) = 17
    /\ Len(issued) > 17
    /\ Statements[17].stmt = "SELECT 1"

====
